---- MODULE Spec2Model ----
(***************************************************************************)
(* Model of src/src/main.rs: the terminal dashboard "The Iron Ledger".     *)
(*                                                                         *)
(* State: AppState.quotes, the three fields of UIState, the position of    *)
(* main in its loop (pc), the terminal mode, the event just read, and the  *)
(* frame last drawn.  One action per step of main: ratatui::init, draw,    *)
(* one per arm of the key match, the failure of draw / read (expect), the  *)
(* panic hook installed by ratatui::init, and ratatui::restore.            *)
(*                                                                         *)
(* Numbers: prices are f64 in the source; here a price is an integer       *)
(* number of hundredths (1000.0 is 100000), and the percent change is the  *)
(* exact quotient rounded to hundredths as {:.2} rounds it.  usize is      *)
(* UsizeBits wide.  The widths of the layout are u16.                      *)
(*                                                                         *)
(* The list of companies main hands to gen_quotes is taken as an input of  *)
(* any length 0..MaxQuotes (a Vec holds fewer than usize::MAX elements, so *)
(* MaxQuotes stays below UsizeMax).                                        *)
(*                                                                         *)
(* External crates: the layout solver of ratatui is modelled by the widths *)
(* it returns for the constraints the source passes; ratatui::init sets a  *)
(* panic hook that restores the terminal; textwrap::wrap is not modelled:  *)
(* a row keeps the arguments of the call.                                  *)
(***************************************************************************)
EXTENDS Integers, Sequences, FiniteSets, TLC

VARIABLES
    quotes,                     \* AppState.quotes
    market_data_active_panel,   \* UIState
    market_data_scroll_pos,     \* UIState
    latest_news_scroll_pos,     \* UIState
    pc,                         \* where main is
    terminal,                   \* "normal" or "alternate" (raw, full screen)
    acquired,                   \* ratatui::init has taken the terminal
    panic_msg,                  \* the message of the panic, "" if none
    event,                      \* the event read in this iteration, "none" before
    term_width,                 \* the width of the terminal, frame.area().width
    frame,                      \* what the last successful draw put on screen
    row,                        \* result of build_market_data_row (RowSpec)
    twin,                       \* a second run of main beside this one (PairSpec)
    lastDir,                    \* history: the most recent Left/Right key
    downRun                     \* history: the keys so far are k Downs, or -1

vars == << quotes, market_data_active_panel, market_data_scroll_pos,
           latest_news_scroll_pos, pc, terminal, acquired, panic_msg, event,
           term_width, frame, row, twin, lastDir, downRun >>

uiVars == << market_data_active_panel, market_data_scroll_pos,
             latest_news_scroll_pos >>

(***************************************************************************)
(* Bounds of the model.                                                    *)
(***************************************************************************)
MaxQuotes == 4          \* number of companies handed to gen_quotes: 0..MaxQuotes
UsizeBits == 3          \* width of usize in the model
MaxTermWidth == 170     \* terminal widths 0..MaxTermWidth
MaxSeed == 2            \* outcomes of the random generator: 0..MaxSeed
PriceStep == 100        \* grid of the sampled prices
MaxDownRun == 6         \* the history counter downRun is kept up to this

(***************************************************************************)
(* Constants of the program.                                               *)
(***************************************************************************)
PriceMin == 500
PriceMax == 3000
ChangePctMin == -10
ChangePctMax == 10
TickerWidth == 8
NameWidth == 30
PriceWidth == 10
ChangeWidth == 7
MinDescriptionWidth == 24
ColumnSpacing == 4
ViewportContentLength == 5
BorderWidth == 2

UsizeMax == 2^UsizeBits - 1
U16Modulus == 65536

Min(a, b) == IF a <= b THEN a ELSE b
Max(a, b) == IF a >= b THEN a ELSE b

\* usize::saturating_sub
SaturatingSub(a, b) == IF a >= b THEN a - b ELSE 0

\* a + b on usize overflows
AddOverflows(a, b) == a + b > UsizeMax

\* a + b on usize, wrapping (equal to a + b when it does not overflow)
AddWrap(a, b) == (a + b) % (UsizeMax + 1)

(***************************************************************************)
(* Data: Quote::random and gen_quotes.                                     *)
(***************************************************************************)
Abs(x) == IF x < 0 THEN -x ELSE x

\* the prices rng.random_range(500.0..=3000.0) is sampled at, in whole units
PriceGrid == { PriceMin + k * PriceStep : k \in 0..((PriceMax - PriceMin) \div PriceStep) }

\* the values rng.random_range(-10.0..=10.0) is sampled at
PctGrid == ChangePctMin..ChangePctMax

\* Quote::random with the two samples drawn: price, and
\* price_yesterday = (1.0 + pct / 100.0) * price; both in hundredths
QuoteRandom(units, pct) ==
    [ price |-> 100 * units, price_yesterday |-> (100 + pct) * units ]

\* the samples the generator yields for the i-th company, for each outcome
\* (seed) of the thread-local generator that the model follows
RngPrice(seed, i) ==
    PriceMin + ((5 * (seed + i)) % (((PriceMax - PriceMin) \div PriceStep) + 1)) * PriceStep

RngPct(seed, i) ==
    ChangePctMin + ((10 * (seed + i - 1)) % (ChangePctMax - ChangePctMin + 1))

\* gen_quotes over n companies: one StockQuote per company, in order
gen_quotes(seed, n) ==
    [ i \in 1..n |-> [ company |-> i,
                       quote |-> QuoteRandom(RngPrice(seed, i), RngPct(seed, i)) ] ]

(***************************************************************************)
(* Text: what format! produces, as a sequence of characters.               *)
(***************************************************************************)
DigitChar(d) == << "0", "1", "2", "3", "4", "5", "6", "7", "8", "9" >>[d + 1]

RECURSIVE Digits(_)
Digits(n) == IF n < 10 THEN << DigitChar(n) >>
             ELSE Digits(n \div 10) \o << DigitChar(n % 10) >>

\* num / den (den > 0, num >= 0) rounded to an integer, ties to even
RoundDiv(num, den) ==
    LET q == num \div den
        r == num % den
    IN  IF 2 * r > den \/ (2 * r = den /\ q % 2 = 1) THEN q + 1 ELSE q

\* {:.2} of the number num / den: sign only when negative, two decimals
FormatFixed2(num, den) ==
    LET m == RoundDiv(Abs(num) * 100, den)
    IN  (IF num < 0 THEN << "-" >> ELSE << >>)
        \o Digits(m \div 100)
        \o << ".", DigitChar((m \div 10) % 10), DigitChar(m % 10) >>

\* {:>w}: right-aligned in w columns, never truncated
RECURSIVE PadLeft(_, _)
PadLeft(s, w) == IF Len(s) >= w THEN s ELSE PadLeft(<< " " >> \o s, w)

\* {:<w}: left-aligned in w columns, never truncated
RECURSIVE PadRight(_, _)
PadRight(s, w) == IF Len(s) >= w THEN s ELSE PadRight(s \o << " " >>, w)

\* AppState.currency_symbol, one character
currency_symbol == << "cogmark-sign" >>

(***************************************************************************)
(* build_market_data_row                                                   *)
(***************************************************************************)
\* percent_change = (price - price_yesterday) / price_yesterday * 100.0,
\* kept as the exact quotient num / den
PercentChange(q) ==
    [ num |-> (q.price - q.price_yesterday) * 100, den |-> q.price_yesterday ]

\* format!("{0:>7.2} {1:<3}", price, currency_symbol)
FormatPrice(q, symbol) ==
    PadLeft(FormatFixed2(q.price, 100), 7) \o << " " >> \o PadRight(symbol, 3)

\* a changed format string: explicit sign
FormatChange_Signed(pc100) ==
    PadLeft((IF pc100.num >= 0 THEN << "+" >> ELSE << >>)
            \o FormatFixed2(pc100.num, pc100.den), 6) \o << "%" >>

\* format!("{0:>6.2}%", percent_change)
FormatChange(pc100) ==
    PadLeft(FormatFixed2(pc100.num, pc100.den), 6) \o << "%" >>

\* a changed comparison: percent_change > 0.0
ChangeStyle_Strict(pc100) == IF pc100.num > 0 THEN "Green" ELSE "Red"

\* if percent_change >= 0.0 { Color::Green } else { Color::Red }
ChangeStyle(pc100) == IF pc100.num >= 0 THEN "Green" ELSE "Red"

\* The description cell and the height of the row are the lines that
\* textwrap::wrap(description, Options::new(description_width)) returns and
\* their number; the row keeps the arguments of that call.
build_market_data_row(stock_quote, symbol, description_width) ==
    LET percent_change == PercentChange(stock_quote.quote)
    IN  [ built |-> TRUE,
          ticker |-> stock_quote.company,
          name |-> stock_quote.company,
          price |-> FormatPrice(stock_quote.quote, symbol),
          change |-> FormatChange(percent_change),
          change_style |-> ChangeStyle(percent_change),
          description |-> [ wrap_of |-> stock_quote.company,
                            width |-> description_width ],
          height |-> [ lines_of |-> stock_quote.company,
                       width |-> description_width ] ]

NoRow == [ built |-> FALSE ]

(***************************************************************************)
(* draw                                                                    *)
(***************************************************************************)
\* Layout::horizontal([Fill(1); 2]).areas(main_area): the width of the first
\* of two equal shares of the terminal width; which share takes the odd
\* column is the solver's rounding
HalfWidths(width) == { width \div 2, (width + 1) \div 2 }

\* Block::bordered().inner(area).width: one column of border on each side
BlockInnerWidth(area_width) == SaturatingSub(area_width, BorderWidth)

\* Layout::horizontal([Length(8), Length(30), Length(10), Length(7), Fill(1)])
\* .areas::<5>(area)[4].width: the excess over the fixed columns
FillColumnWidth(table_width) ==
    SaturatingSub(table_width, TickerWidth + NameWidth + PriceWidth + ChangeWidth)

\* a changed computation: the minimum is left out
DescriptionWidth_NoMin(remaining) == (remaining - ColumnSpacing) % U16Modulus

\* changed: the spacing is taken off before the minimum is applied
DescriptionWidth_SubtractFirst(remaining) ==
    Max((remaining - ColumnSpacing) % U16Modulus, MinDescriptionWidth)

\* max(remaining, 24) - 4, on u16
DescriptionWidth(remaining) ==
    (Max(remaining, MinDescriptionWidth) - ColumnSpacing) % U16Modulus

\* changed: the active style whichever panel is focused
BorderStyle_AlwaysActive(panel, active) == "Yellow"

BorderStyle(panel, active) == IF active = panel THEN "Yellow" ELSE "Default"

\* changed: the rows start at the first quote whatever the offset
VisibleQuotes_All(app_quotes, scroll_pos) == app_quotes

\* changed: one more quote is skipped than the offset says
VisibleQuotes_SkipOneMore(app_quotes, scroll_pos) ==
    LET skipped == Min(scroll_pos + 1, Len(app_quotes))
    IN  [ i \in 1..(Len(app_quotes) - skipped) |-> app_quotes[i + skipped] ]

\* app_state.quotes.iter().skip(ui_state.market_data_scroll_pos)
VisibleQuotes(app_quotes, scroll_pos) ==
    LET skipped == Min(scroll_pos, Len(app_quotes))
    IN  [ i \in 1..(Len(app_quotes) - skipped) |-> app_quotes[i + skipped] ]

\* ScrollbarState::default().content_length(..).position(..)
\*     .viewport_content_length(5)
ScrollbarState(app_quotes, scroll_pos) ==
    [ content_length |-> Len(app_quotes),
      position |-> scroll_pos,
      viewport_content_length |-> ViewportContentLength ]

\* the frame draw composes for a market data area of the given width
DrawFrame(area_width, app_quotes, active_panel, scroll_pos) ==
    LET table_width == BlockInnerWidth(area_width)
        remaining == FillColumnWidth(table_width)
        description_width == DescriptionWidth(remaining)
        visible == VisibleQuotes(app_quotes, scroll_pos)
    IN  [ drawn |-> TRUE,
          market_data_area_width |-> area_width,
          market_data_table_width |-> table_width,
          description_column_width |-> remaining,
          description_width |-> description_width,
          market_data_border |-> BorderStyle("MarketData", active_panel),
          latest_news_border |-> BorderStyle("LatestNews", active_panel),
          scrollbar_style |-> BorderStyle("MarketData", active_panel),
          rows |-> [ i \in 1..Len(visible) |->
                     build_market_data_row(visible[i], currency_symbol,
                                           description_width) ],
          scrollbar |-> ScrollbarState(app_quotes, scroll_pos) ]

NoFrame == [ drawn |-> FALSE ]

(***************************************************************************)
(* main                                                                    *)
(***************************************************************************)
KeyCodes == { "Left", "Right", "Up", "Down", "q", "Esc", "Enter" }

\* KeyCode::Char('q') | KeyCode::Esc
QuitKeys_OnlyQ == { "q" }

QuitKeys == { "q", "Esc" }

HandledKeys == QuitKeys \cup { "Left", "Right", "Up", "Down" }

\* events that are not Event::Key and leave the terminal as it is
OtherEvents == { "Mouse", "FocusGained" }

\* the widths the terminal takes in Spec: the narrowest and the widest
SampleWidths == { 0, MaxTermWidth }

\* the state main has built before it takes the terminal, for a terminal
\* of one of the given widths and a company list of one of the given lengths
InitWith(widths, lengths) ==
    /\ \E n \in lengths, seed \in 0..MaxSeed : quotes = gen_quotes(seed, n)
    /\ term_width \in widths
    /\ market_data_active_panel = "MarketData"
    /\ market_data_scroll_pos = 0
    /\ latest_news_scroll_pos = 0
    /\ pc = "init"
    /\ terminal = "normal"
    /\ acquired = FALSE
    /\ panic_msg = ""
    /\ event = "none"
    /\ frame = NoFrame
    /\ row = NoRow
    /\ lastDir = "none"
    /\ downRun = 0

\* no second run
NoTwin == [ pc |-> "off" ]

Init == InitWith(SampleWidths, 0..MaxQuotes) /\ twin = NoTwin

\* a panic: expect() on an Err, or an overflow where overflow is checked
Panic(msg) ==
    /\ pc' = "panic"
    /\ panic_msg' = msg

\* ratatui::init(): raw mode and alternate screen, and a panic hook that
\* restores the terminal before the panic is reported
TerminalInit ==
    /\ pc = "init"
    /\ pc' = "draw"
    /\ terminal' = "alternate"
    /\ acquired' = TRUE
    /\ UNCHANGED << quotes, uiVars, panic_msg, event, term_width, frame, row, twin, lastDir, downRun >>

\* ratatui::init() fails: it panics, the terminal was not taken
TerminalInitFail ==
    /\ pc = "init"
    /\ Panic("failed to initialize terminal")
    /\ UNCHANGED << quotes, uiVars, terminal, acquired, event, term_width, frame, row, twin,
                    lastDir, downRun >>

\* terminal.draw(|frame| draw(frame, &app_state, &ui_state)) succeeds
Draw ==
    /\ pc = "draw"
    /\ \E area_width \in HalfWidths(term_width) :
         frame' = DrawFrame(area_width, quotes, market_data_active_panel,
                            market_data_scroll_pos)
    /\ event' = "none"
    /\ pc' = "read"
    /\ UNCHANGED << quotes, uiVars, terminal, acquired, panic_msg, term_width,
                    row, twin, lastDir, downRun >>

\* .expect("failed to draw frame")
DrawFail ==
    /\ pc = "draw"
    /\ Panic("failed to draw frame")
    /\ UNCHANGED << quotes, uiVars, terminal, acquired, event, term_width, frame, row, twin,
                    lastDir, downRun >>

\* event::read().expect("failed to read event")
ReadFail ==
    /\ pc = "read"
    /\ Panic("failed to read event")
    /\ UNCHANGED << quotes, uiVars, terminal, acquired, event, term_width, frame, row, twin,
                    lastDir, downRun >>

\* what every arm leaves alone
ReadFrame == UNCHANGED << quotes, terminal, acquired, frame, row, twin >>

\* what every arm but a resize leaves alone
KeyFrame == ReadFrame /\ UNCHANGED term_width

\* KeyCode::Char('q') | KeyCode::Esc => break
KeyQuit ==
    /\ pc = "read"
    /\ \E k \in QuitKeys : event' = k
    /\ pc' = "restore"
    /\ downRun' = -1
    /\ KeyFrame
    /\ UNCHANGED << uiVars, panic_msg, lastDir >>

\* the panel KeyCode::Right selects, changed
FocusOnRight_Same == "MarketData"

\* the panel KeyCode::Right selects
FocusOnRight == "LatestNews"

\* changed: the focus switch puts both offsets back to 0
KeyLeft_ResetsScroll ==
    /\ pc = "read"
    /\ event' = "Left"
    /\ market_data_active_panel' = "MarketData"
    /\ market_data_scroll_pos' = 0
    /\ latest_news_scroll_pos' = 0
    /\ lastDir' = "Left"
    /\ downRun' = -1
    /\ pc' = "draw"
    /\ KeyFrame
    /\ UNCHANGED panic_msg

\* KeyCode::Left => market_data_active_panel = MarketData
KeyLeft ==
    /\ pc = "read"
    /\ event' = "Left"
    /\ market_data_active_panel' = "MarketData"
    /\ lastDir' = "Left"
    /\ downRun' = -1
    /\ pc' = "draw"
    /\ KeyFrame
    /\ UNCHANGED << market_data_scroll_pos, latest_news_scroll_pos, panic_msg >>

\* changed: after Right the loop reads the next event without drawing
KeyRight_NoRedraw ==
    /\ pc = "read"
    /\ event' = "Right"
    /\ market_data_active_panel' = FocusOnRight
    /\ lastDir' = "Right"
    /\ downRun' = -1
    /\ pc' = "read"
    /\ KeyFrame
    /\ UNCHANGED << market_data_scroll_pos, latest_news_scroll_pos, panic_msg >>

\* KeyCode::Right => market_data_active_panel = LatestNews
KeyRight ==
    /\ pc = "read"
    /\ event' = "Right"
    /\ market_data_active_panel' = FocusOnRight
    /\ lastDir' = "Right"
    /\ downRun' = -1
    /\ pc' = "draw"
    /\ KeyFrame
    /\ UNCHANGED << market_data_scroll_pos, latest_news_scroll_pos, panic_msg >>

\* changed: the bound is the length
DownMarketPos_Len(pos, len) == Min(len, AddWrap(pos, 1))

\* changed: no bound
DownMarketPos_Unbounded(pos, len) == AddWrap(pos, 1)

\* min(quotes.len().saturating_sub(1), market_data_scroll_pos + 1)
DownMarketPos(pos, len) == Min(SaturatingSub(len, 1), AddWrap(pos, 1))

\* latest_news_scroll_pos += 1
DownNewsPos(pos) == AddWrap(pos, 1)

\* the offset of the focused panel
FocusedScrollPos ==
    IF market_data_active_panel = "MarketData"
    THEN market_data_scroll_pos ELSE latest_news_scroll_pos

\* the history counter of Down presses
NextDownRun == IF downRun >= 0 /\ downRun < MaxDownRun THEN downRun + 1 ELSE -1

\* KeyCode::Down, focus on MarketData, the addition does not overflow
KeyDownMarketData ==
    /\ pc = "read"
    /\ market_data_active_panel = "MarketData"
    /\ ~AddOverflows(market_data_scroll_pos, 1)
    /\ event' = "Down"
    /\ market_data_scroll_pos' = DownMarketPos(market_data_scroll_pos, Len(quotes))
    /\ downRun' = NextDownRun
    /\ pc' = "draw"
    /\ KeyFrame
    /\ UNCHANGED << market_data_active_panel, latest_news_scroll_pos, panic_msg,
                    lastDir >>

\* KeyCode::Down, focus on LatestNews, the addition does not overflow
KeyDownLatestNews ==
    /\ pc = "read"
    /\ market_data_active_panel = "LatestNews"
    /\ ~AddOverflows(latest_news_scroll_pos, 1)
    /\ event' = "Down"
    /\ latest_news_scroll_pos' = DownNewsPos(latest_news_scroll_pos)
    /\ downRun' = -1
    /\ pc' = "draw"
    /\ KeyFrame
    /\ UNCHANGED << market_data_active_panel, market_data_scroll_pos, panic_msg,
                    lastDir >>

\* KeyCode::Down, the addition overflows, overflow checks on: panic
KeyDownOverflowPanic ==
    /\ pc = "read"
    /\ AddOverflows(FocusedScrollPos, 1)
    /\ event' = "Down"
    /\ Panic("attempt to add with overflow")
    /\ downRun' = -1
    /\ KeyFrame
    /\ UNCHANGED << uiVars, lastDir >>

\* KeyCode::Down, the addition overflows, overflow checks off: it wraps
KeyDownOverflowWrap ==
    /\ pc = "read"
    /\ AddOverflows(FocusedScrollPos, 1)
    /\ event' = "Down"
    /\ market_data_scroll_pos' =
         IF market_data_active_panel = "MarketData"
         THEN DownMarketPos(market_data_scroll_pos, Len(quotes))
         ELSE market_data_scroll_pos
    /\ latest_news_scroll_pos' =
         IF market_data_active_panel = "LatestNews"
         THEN DownNewsPos(latest_news_scroll_pos)
         ELSE latest_news_scroll_pos
    /\ downRun' = -1
    /\ pc' = "draw"
    /\ KeyFrame
    /\ UNCHANGED << market_data_active_panel, panic_msg, lastDir >>

\* changed: a plain subtraction, which wraps below 0
UpPos_Wrapping(pos) == (pos - 1) % (UsizeMax + 1)

\* scroll_pos.saturating_sub(1)
UpPos(pos) == SaturatingSub(pos, 1)

\* KeyCode::Up, focus on MarketData
KeyUpMarketData ==
    /\ pc = "read"
    /\ market_data_active_panel = "MarketData"
    /\ event' = "Up"
    /\ market_data_scroll_pos' = UpPos(market_data_scroll_pos)
    /\ downRun' = -1
    /\ pc' = "draw"
    /\ KeyFrame
    /\ UNCHANGED << market_data_active_panel, latest_news_scroll_pos, panic_msg,
                    lastDir >>

\* KeyCode::Up, focus on LatestNews
KeyUpLatestNews ==
    /\ pc = "read"
    /\ market_data_active_panel = "LatestNews"
    /\ event' = "Up"
    /\ latest_news_scroll_pos' = UpPos(latest_news_scroll_pos)
    /\ downRun' = -1
    /\ pc' = "draw"
    /\ KeyFrame
    /\ UNCHANGED << market_data_active_panel, market_data_scroll_pos, panic_msg,
                    lastDir >>

\* changed: every key without an arm of its own breaks the loop
KeyOther_Quits ==
    /\ pc = "read"
    /\ \E k \in KeyCodes \ HandledKeys : event' = k
    /\ downRun' = -1
    /\ pc' = "restore"
    /\ KeyFrame
    /\ UNCHANGED << uiVars, panic_msg, lastDir >>

\* _ => {}
KeyOther ==
    /\ pc = "read"
    /\ \E k \in KeyCodes \ HandledKeys : event' = k
    /\ downRun' = -1
    /\ pc' = "draw"
    /\ KeyFrame
    /\ UNCHANGED << uiVars, panic_msg, lastDir >>

\* the event is not Event::Key: the if let does not match
NonKeyEvent ==
    /\ pc = "read"
    /\ \E e \in OtherEvents : event' = e
    /\ downRun' = -1
    /\ pc' = "draw"
    /\ KeyFrame
    /\ UNCHANGED << uiVars, panic_msg, lastDir >>

\* Event::Resize: not Event::Key, the if let does not match; the terminal
\* has one of the given widths from now on
Resize(widths) ==
    /\ pc = "read"
    /\ event' = "Resize"
    /\ term_width' \in widths
    /\ downRun' = -1
    /\ pc' = "draw"
    /\ ReadFrame
    /\ UNCHANGED << uiVars, panic_msg, lastDir >>

\* changed: main returns without restoring
Restore_Skipped ==
    /\ pc = "restore"
    /\ pc' = "done"
    /\ UNCHANGED << quotes, uiVars, terminal, acquired, panic_msg, event, term_width,
                    frame,                    row, twin, lastDir, downRun >>

\* ratatui::restore() after the loop, then main returns
Restore ==
    /\ pc = "restore"
    /\ terminal' = "normal"
    /\ pc' = "done"
    /\ UNCHANGED << quotes, uiVars, acquired, panic_msg, event, term_width, frame, row, twin,
                    lastDir, downRun >>

\* the panic hook set by ratatui::init() restores the terminal, then the
\* process ends
PanicHook ==
    /\ pc = "panic"
    /\ terminal' = "normal"
    /\ pc' = "aborted"
    /\ UNCHANGED << quotes, uiVars, acquired, panic_msg, event, term_width, frame, row, twin,
                    lastDir, downRun >>

Next ==
    \/ TerminalInit
    \/ TerminalInitFail
    \/ Draw
    \/ DrawFail
    \/ ReadFail
    \/ KeyQuit
    \/ KeyLeft
    \/ KeyRight
    \/ KeyDownMarketData
    \/ KeyDownLatestNews
    \/ KeyDownOverflowPanic
    \/ KeyDownOverflowWrap
    \/ KeyUpMarketData
    \/ KeyUpLatestNews
    \/ KeyOther
    \/ NonKeyEvent
    \/ Resize(SampleWidths)
    \/ Restore
    \/ PanicHook

Spec == Init /\ [][Next]_vars

(***************************************************************************)
(* The layout of draw over every terminal width: one quote, the terminal   *)
(* resized to any width between draws.                                     *)
(***************************************************************************)
LayoutInit == InitWith(0..MaxTermWidth, { 1 }) /\ twin = NoTwin

LayoutNext ==
    \/ TerminalInit
    \/ Draw
    \/ Resize(0..MaxTermWidth)

LayoutSpec == LayoutInit /\ [][LayoutNext]_vars

(***************************************************************************)
(* build_market_data_row on its own: one quote from the whole grid of      *)
(* samples, one call.                                                      *)
(***************************************************************************)
RowInit ==
    /\ \E units \in PriceGrid, pct \in PctGrid :
         quotes = << [ company |-> 1, quote |-> QuoteRandom(units, pct) ] >>
    /\ market_data_active_panel = "MarketData"
    /\ market_data_scroll_pos = 0
    /\ latest_news_scroll_pos = 0
    /\ term_width = 0
    /\ pc = "row"
    /\ terminal = "normal"
    /\ acquired = FALSE
    /\ panic_msg = ""
    /\ event = "none"
    /\ frame = NoFrame
    /\ row = NoRow
    /\ twin = NoTwin
    /\ lastDir = "none"
    /\ downRun = 0

BuildRow ==
    /\ pc = "row"
    /\ \E remaining \in { 0, MinDescriptionWidth + 1 } :
         row' = build_market_data_row(quotes[1], currency_symbol,
                                      DescriptionWidth(remaining))
    /\ pc' = "row_done"
    /\ UNCHANGED << quotes, uiVars, terminal, acquired, panic_msg, event, term_width,
                    frame, twin, lastDir, downRun >>

RowNext == BuildRow

RowSpec == RowInit /\ [][RowNext]_vars

(***************************************************************************)
(* Two runs of main side by side, on the same quotes, the same terminal    *)
(* and the same build.  The second run, twin, gets every event the first   *)
(* gets, one step behind it, and between them Up and Down keys of its own   *)
(* while its focus is on the news panel, so the two UI states come to       *)
(* differ in latest_news_scroll_pos and in nothing else.  overflow_checks   *)
(* is the build: on in a debug build, off in a release build.               *)
(***************************************************************************)
\* the match on key.code as a function of the UI state: the state after the
\* arm of the key has run
MatchKey(ui, key, len, overflow_checks) ==
    LET active == ui.market_data_active_panel
        pos == IF active = "MarketData"
               THEN ui.market_data_scroll_pos ELSE ui.latest_news_scroll_pos
        next == [ ui EXCEPT !.pc = "draw" ]
    IN  IF key = "Left"
        THEN [ next EXCEPT !.market_data_active_panel = "MarketData" ]
        ELSE IF key = "Right"
        THEN [ next EXCEPT !.market_data_active_panel = FocusOnRight ]
        ELSE IF key = "Down" /\ AddOverflows(pos, 1) /\ overflow_checks
        THEN [ ui EXCEPT !.pc = "panic",
                         !.panic_msg = "attempt to add with overflow" ]
        ELSE IF key = "Down" /\ active = "MarketData"
        THEN [ next EXCEPT !.market_data_scroll_pos = DownMarketPos(pos, len) ]
        ELSE IF key = "Down"
        THEN [ next EXCEPT !.latest_news_scroll_pos = DownNewsPos(pos) ]
        ELSE IF key = "Up" /\ active = "MarketData"
        THEN [ next EXCEPT !.market_data_scroll_pos = UpPos(pos) ]
        ELSE IF key = "Up"
        THEN [ next EXCEPT !.latest_news_scroll_pos = UpPos(pos) ]
        ELSE next

\* the second run after construction, as main sets it up
PairInit ==
    /\ InitWith({ MaxTermWidth }, { 2 })
    /\ \E checks \in BOOLEAN :
         twin = [ pc |-> "init",
                  market_data_active_panel |-> "MarketData",
                  market_data_scroll_pos |-> 0,
                  latest_news_scroll_pos |-> 0,
                  panic_msg |-> "",
                  frame |-> NoFrame,
                  overflow_checks |-> checks ]

\* the first run takes a step when the second has caught up with it
Lockstep(step) == twin.pc = pc /\ step

TwinFrame ==
    UNCHANGED << quotes, uiVars, pc, terminal, acquired, panic_msg, event,
                 term_width, frame, row, lastDir, downRun >>

\* ratatui::init() in the second run
TwinTerminalInit ==
    /\ twin.pc = "init"
    /\ pc = "draw"
    /\ twin' = [ twin EXCEPT !.pc = "draw" ]
    /\ TwinFrame

\* terminal.draw in the second run, on a terminal of the same size
TwinDraw ==
    /\ twin.pc = "draw"
    /\ pc = "read"
    /\ twin' = [ twin EXCEPT
                   !.pc = "read",
                   !.frame = DrawFrame(frame.market_data_area_width, quotes,
                                       twin.market_data_active_panel,
                                       twin.market_data_scroll_pos) ]
    /\ TwinFrame

\* the second run reads the event the first run has read
TwinKey ==
    /\ twin.pc = "read"
    /\ pc \in { "draw", "panic" }
    /\ twin' = MatchKey(twin, event, Len(quotes), twin.overflow_checks)
    /\ TwinFrame

\* the second run alone gets Up or Down with its focus on the news panel,
\* and draws again if the loop goes on
TwinScroll ==
    /\ twin.pc = "read"
    /\ pc = "read"
    /\ twin.market_data_active_panel = "LatestNews"
    /\ \E key \in { "Up", "Down" } :
         LET after == MatchKey(twin, key, Len(quotes), twin.overflow_checks)
         IN  twin' = IF after.pc = "draw"
                     THEN [ after EXCEPT
                              !.pc = "read",
                              !.frame = DrawFrame(frame.market_data_area_width,
                                                  quotes,
                                                  after.market_data_active_panel,
                                                  after.market_data_scroll_pos) ]
                     ELSE after
    /\ TwinFrame

PairNext ==
    \/ Lockstep(TerminalInit)
    \/ Lockstep(Draw)
    \/ Lockstep(KeyLeft)
    \/ Lockstep(KeyRight)
    \/ Lockstep(KeyDownMarketData)
    \/ Lockstep(KeyDownLatestNews)
    \/ (twin.overflow_checks /\ Lockstep(KeyDownOverflowPanic))
    \/ (~twin.overflow_checks /\ Lockstep(KeyDownOverflowWrap))
    \/ Lockstep(KeyUpMarketData)
    \/ Lockstep(KeyUpLatestNews)
    \/ TwinTerminalInit
    \/ TwinDraw
    \/ TwinKey
    \/ TwinScroll

PairSpec == PairInit /\ [][PairNext]_vars

(***************************************************************************)
(* Properties.                                                             *)
(***************************************************************************)
Running == { "draw", "read" }

\* a step in which main reads the key k and runs its arm
Reads(k) == pc = "read" /\ event' = k

\* C1: the market data offset is never negative and never above
\* max(0, len(quotes) - 1); with no quotes it is 0.
ScrollBound ==
    /\ market_data_scroll_pos >= 0
    /\ market_data_scroll_pos <= Max(0, Len(quotes) - 1)
    /\ (Len(quotes) = 0 => market_data_scroll_pos = 0)

\* Down has been pressed at the last quote of a list of two or more
ScrollBoundWitness ==
    /\ Len(quotes) >= 2
    /\ market_data_scroll_pos = Len(quotes) - 1
    /\ event = "Down"
    /\ downRun = Len(quotes)

\* C2: exactly one of the two panels is focused, it is the one the most
\* recent Left or Right key selected (MarketData before any), and no other
\* key changes the focus.
FocusExclusive ==
    /\ [](/\ Cardinality({ p \in { "MarketData", "LatestNews" } :
                             p = market_data_active_panel }) = 1
          /\ (lastDir = "Right" => market_data_active_panel = "LatestNews")
          /\ (lastDir = "Left" => market_data_active_panel = "MarketData")
          /\ (lastDir = "none" => market_data_active_panel = "MarketData"))
    /\ [][event' \notin { "Left", "Right" }
            => market_data_active_panel' = market_data_active_panel]_vars

\* Right then other keys: Down has moved the news offset, focus is still news
FocusExclusiveWitness ==
    /\ lastDir = "Right"
    /\ market_data_active_panel = "LatestNews"
    /\ event = "Down"
    /\ latest_news_scroll_pos > 0

\* C3: Down with focus on MarketData sets the offset to
\* min(len(quotes) - 1, pos + 1) and changes nothing else; after k Downs from
\* the start the offset is min(k, len - 1); at len - 1, and with no quotes,
\* Down changes nothing.
DownMarketData ==
    /\ [][(Reads("Down") /\ market_data_active_panel = "MarketData")
            => /\ pc' = "draw"
               /\ market_data_scroll_pos' =
                    IF Len(quotes) = 0 THEN market_data_scroll_pos
                    ELSE Min(Len(quotes) - 1, market_data_scroll_pos + 1)
               /\ (market_data_scroll_pos = Max(0, Len(quotes) - 1)
                     => UNCHANGED uiVars)
               /\ UNCHANGED << market_data_active_panel, latest_news_scroll_pos >>]_vars
    /\ [](downRun >= 0
            => market_data_scroll_pos = Min(downRun, Max(0, Len(quotes) - 1)))

\* the list is as long as it gets and Down was pressed len + 1 times
DownMarketDataWitness ==
    /\ Len(quotes) = MaxQuotes
    /\ downRun = Len(quotes) + 1
    /\ market_data_scroll_pos = Len(quotes) - 1

\* C4 as claimed: the description width draw computes and hands to
\* build_market_data_row is never below 24.
DescriptionWidthAtLeast24 ==
    frame.drawn =>
        /\ frame.description_width >= 24
        /\ \A i \in 1..Len(frame.rows) : frame.rows[i].description.width >= 24

\* C4: the description width draw computes and hands to
\* build_market_data_row is max(remaining, 24) - 4 for the remaining width of
\* the description column, so it is never below 20, at any terminal width.
DescriptionWidthAtLeast20 ==
    frame.drawn =>
        /\ frame.description_width >= 20
        /\ frame.description_width =
             (IF frame.description_column_width >= 24
              THEN frame.description_column_width ELSE 24) - 4
        /\ \A i \in 1..Len(frame.rows) :
             frame.rows[i].description.width = frame.description_width

\* a terminal one column wide has been drawn
DescriptionWidthWitness ==
    /\ pc = "read"
    /\ term_width = 1
    /\ frame.drawn
    /\ frame.description_width = 20
    /\ Len(frame.rows) = 1
    /\ frame.rows[1].description.width = 20

\* C5: once the terminal is taken the process does not end with the
\* terminal in another mode than normal, by quit or by a failure, and
\* after a failure main draws and reads no more.
TerminalRestored ==
    /\ (acquired /\ pc \in { "done", "aborted" }) => terminal = "normal"
    /\ panic_msg # "" => pc \in { "panic", "aborted" }
    /\ pc \in Running => panic_msg = ""

\* the process has ended after a failed read
TerminalRestoredWitness ==
    /\ acquired
    /\ pc = "aborted"
    /\ panic_msg = "failed to read event"
    /\ terminal = "normal"

\* C6 as claimed: Down with focus on LatestNews raises no error and adds
\* exactly one to latest_news_scroll_pos, whatever the offset is.
DownLatestNewsAddsOne ==
    [][(Reads("Down") /\ market_data_active_panel = "LatestNews")
         => /\ pc' = "draw"
            /\ panic_msg' = ""
            /\ latest_news_scroll_pos' = latest_news_scroll_pos + 1]_vars

\* the characters of a change cell before the percent sign, without the
\* padding
RECURSIVE Trimmed(_)
Trimmed(s) == IF s # << >> /\ Head(s) = " " THEN Trimmed(Tail(s)) ELSE s

ChangeNumber(cell) == Trimmed(SubSeq(cell, 1, Len(cell) - 1))

DigitOf(c) == CHOOSE d \in 0..9 : DigitChar(d) = c

IsDigit(c) == \E d \in 0..9 : DigitChar(d) = c

\* the number of hundredths an unsigned text d..d.dd stands for; -1 if the
\* text is not of that form
RECURSIVE NatOf(_)
NatOf(s) == IF s = << >> THEN 0
            ELSE 10 * NatOf(SubSeq(s, 1, Len(s) - 1)) + DigitOf(s[Len(s)])

HundredthsOf(s) ==
    IF /\ Len(s) >= 4
       /\ s[Len(s) - 2] = "."
       /\ \A i \in (1..Len(s)) \ { Len(s) - 2 } : IsDigit(s[i])
    THEN 100 * NatOf(SubSeq(s, 1, Len(s) - 3))
         + 10 * DigitOf(s[Len(s) - 1]) + DigitOf(s[Len(s)])
    ELSE -1

RowQuote == quotes[1].quote

\* C7 as claimed: for a price above yesterday's the change cell is the
\* percent change with a leading plus sign; 1000.0 against 900.0 shows
\* +11.11% in the positive style.
ChangeTextSigned ==
    (row.built /\ RowQuote.price > RowQuote.price_yesterday) =>
        /\ Head(ChangeNumber(row.change)) = "+"
        /\ (RowQuote.price = 100000 /\ RowQuote.price_yesterday = 90000
              => /\ row.change = << "+", "1", "1", ".", "1", "1", "%" >>
                 /\ row.change_style = "Green")

\* C7: for a price above yesterday's the change cell is the percent change
\* (price - price_yesterday) / price_yesterday * 100 rounded to 2 decimals,
\* right-aligned in 6 columns, without a sign, then a percent sign;
\* 1000.0 against 900.0 shows " 11.11%" in the positive style.
ChangeTextUnsigned ==
    (row.built /\ RowQuote.price > RowQuote.price_yesterday) =>
        LET number == ChangeNumber(row.change)
            shown == HundredthsOf(number)
        IN  /\ Len(row.change) >= 7
            /\ row.change[Len(row.change)] = "%"
            /\ shown >= 0
            /\ 2 * Abs(shown * RowQuote.price_yesterday
                       - (RowQuote.price - RowQuote.price_yesterday) * 10000)
                 <= RowQuote.price_yesterday
            /\ (RowQuote.price = 100000 /\ RowQuote.price_yesterday = 90000
                  => /\ row.change = << " ", "1", "1", ".", "1", "1", "%" >>
                     /\ row.change_style = "Green")

\* the row of the quote 1000.0 against 900.0 has been built
ChangeTextWitness ==
    /\ row.built
    /\ RowQuote.price = 100000
    /\ RowQuote.price_yesterday = 90000
    /\ row.change = << " ", "1", "1", ".", "1", "1", "%" >>

\* C8: the change cell is green exactly when price >= price_yesterday and
\* red otherwise; equal prices show 0.00% in green.
ChangeStyling ==
    (row.built /\ RowQuote.price_yesterday > 0) =>
        /\ row.change_style \in { "Green", "Red" }
        /\ row.change_style = "Green" <=> RowQuote.price >= RowQuote.price_yesterday
        /\ (RowQuote.price = RowQuote.price_yesterday
              => /\ ChangeNumber(row.change) = << "0", ".", "0", "0" >>
                 /\ row.change[Len(row.change)] = "%"
                 /\ row.change_style = "Green")

\* the row of a quote with equal prices has been built
ChangeStylingWitness ==
    /\ row.built
    /\ RowQuote.price = RowQuote.price_yesterday
    /\ row.change_style = "Green"

\* C10 as claimed: the loop leaves its running state only when a quit key
\* is read.
OnlyQuitEndsLoop ==
    [][(pc \in Running /\ pc' \notin Running) => event' \in { "q", "Esc" }]_vars

\* C10: the loop breaks only when q or Escape is read, q and Escape break it
\* from every UI state and leave the UI state as it is, and the loop ends in
\* no other way than by a panic.
QuitEndsLoop ==
    [][/\ (pc \in Running /\ pc' \notin Running)
            => \/ pc' = "panic" /\ panic_msg' # ""
               \/ pc' = "restore" /\ event' \in { "q", "Esc" }
       /\ (pc \in Running /\ pc' = "restore")
            => (Reads("q") \/ Reads("Esc")) /\ UNCHANGED uiVars
       /\ (Reads("q") \/ Reads("Esc"))
            => pc' = "restore" /\ UNCHANGED uiVars]_vars

\* Escape has ended the session with the focus on news and both offsets moved
QuitEndsLoopWitness ==
    /\ pc = "restore"
    /\ event = "Esc"
    /\ market_data_active_panel = "LatestNews"
    /\ market_data_scroll_pos > 0
    /\ latest_news_scroll_pos > 0

\* C11: Up takes one from the offset of the focused panel and stops at 0:
\* the offset becomes max(0, pos - 1), it never goes below 0 nor wraps, and
\* Up at offset 0 leaves the whole UI state as it is.
UpSaturates ==
    [][Reads("Up")
         => /\ pc' = "draw"
            /\ market_data_active_panel = "MarketData"
                 => /\ market_data_scroll_pos' = Max(0, market_data_scroll_pos - 1)
                    /\ market_data_scroll_pos = 0 => UNCHANGED uiVars
            /\ market_data_active_panel = "LatestNews"
                 => /\ latest_news_scroll_pos' = Max(0, latest_news_scroll_pos - 1)
                    /\ latest_news_scroll_pos = 0 => UNCHANGED uiVars]_vars

\* Up has been pressed with the focus on news and the news offset at 0,
\* after the market data offset was moved
UpSaturatesWitness ==
    /\ event = "Up"
    /\ market_data_active_panel = "LatestNews"
    /\ latest_news_scroll_pos = 0
    /\ market_data_scroll_pos > 0

\* C12: Left and Right change the focus and leave both offsets as they
\* are; Up and Down leave the focus and the offset of the other panel as
\* they are.
FrameConditions ==
    [][/\ (Reads("Left") \/ Reads("Right"))
            => UNCHANGED << market_data_scroll_pos, latest_news_scroll_pos >>
       /\ (Reads("Up") \/ Reads("Down"))
            => /\ UNCHANGED market_data_active_panel
               /\ market_data_active_panel = "MarketData"
                    => UNCHANGED latest_news_scroll_pos
               /\ market_data_active_panel = "LatestNews"
                    => UNCHANGED market_data_scroll_pos]_vars

\* the focus has come back to market data with both offsets moved
FrameConditionsWitness ==
    /\ event = "Left"
    /\ market_data_active_panel = "MarketData"
    /\ market_data_scroll_pos > 0
    /\ latest_news_scroll_pos > 0

\* C13: a key other than Left, Right, Up, Down, q and Escape, and an event
\* that is no key event, leaves the focus and both offsets as they are and
\* does not end the session: the loop goes on to draw.
IgnoredInput ==
    [][(pc = "read"
        /\ event' \notin { "none", "Left", "Right", "Up", "Down", "q", "Esc" })
         => /\ UNCHANGED uiVars
            /\ pc' = "draw"
            /\ panic_msg' = ""]_vars

\* Enter has been pressed with the focus on news and both offsets moved
IgnoredInputWitness ==
    /\ event = "Enter"
    /\ pc = "draw"
    /\ market_data_active_panel = "LatestNews"
    /\ market_data_scroll_pos > 0
    /\ latest_news_scroll_pos > 0

\* C14: the frame on screen shows one row for each quote from the market
\* data offset on, in the order of the quotes, and its scrollbar has the
\* number of quotes as content length and the offset as position, both as
\* they are in the UI state the frame was drawn from.
RenderWindow ==
    pc = "read" =>
        /\ frame.drawn
        /\ Len(frame.rows) = Len(quotes) - market_data_scroll_pos
        /\ \A i \in 1..Len(frame.rows) :
             frame.rows[i] =
                 build_market_data_row(quotes[market_data_scroll_pos + i],
                                       currency_symbol, frame.description_width)
        /\ frame.scrollbar.content_length = Len(quotes)
        /\ frame.scrollbar.position = market_data_scroll_pos

\* a frame drawn at offset 2 of four quotes: rows for the third and fourth
RenderWindowWitness ==
    /\ pc = "read"
    /\ Len(quotes) = 4
    /\ market_data_scroll_pos = 2
    /\ Len(frame.rows) = 2
    /\ frame.rows[1].ticker = quotes[3].company
    /\ frame.rows[2].ticker = quotes[4].company
    /\ frame.scrollbar.position = 2

\* the parts of a frame that carry the border colour: the two block borders
\* and the scrollbar drawn on the right border column of the market data
\* block
BorderColourFields ==
    { "market_data_border", "latest_news_border", "scrollbar_style" }

DrawReadOrdering ==
    /\ [](/\ pc = "read" =>
               /\ frame.drawn
               /\ frame.market_data_area_width \in HalfWidths(term_width)
               /\ frame = DrawFrame(frame.market_data_area_width, quotes,
                                    market_data_active_panel,
                                    market_data_scroll_pos)
          /\ event # "none" => frame.drawn)
    /\ [][/\ pc = "draw" => /\ pc' \in { "read", "panic" }
                            /\ UNCHANGED << quotes, uiVars >>
          /\ pc = "read" => pc' \in { "draw", "restore", "panic" }
          /\ uiVars' # uiVars => (pc = "read" /\ pc' = "draw")]_vars

\* the loop waits for an event in front of a frame drawn after Right and
\* Down keys changed the UI state
DrawReadOrderingWitness ==
    /\ pc = "read"
    /\ event = "none"
    /\ lastDir = "Right"
    /\ market_data_scroll_pos > 0
    /\ frame.latest_news_border = "Yellow"
    /\ Len(frame.rows) < Len(quotes)

\* C17: for every terminal width from 0 up, every number of quotes from 0
\* up and every reachable market data offset, max(remaining, 24) - 4 lies
\* within u16, so the u16 result is the exact difference, and Up and Down
\* with the focus on market data compute the exact values max(pos - 1, 0)
\* and min(max(len - 1, 0), pos + 1) within usize: pos + 1 does not
\* overflow and no overflow panic comes from the market data panel.  The
\* widths do not depend on the state: they are gone through once, before
\* the loop starts.
ArithmeticTotal ==
    /\ [](/\ pc = "init" =>
               \A w \in 0..MaxTermWidth : \A area_width \in HalfWidths(w) :
                 LET remaining == FillColumnWidth(BlockInnerWidth(area_width))
                     exact == Max(remaining, MinDescriptionWidth) - ColumnSpacing
                 IN  /\ exact \in 0..(U16Modulus - 1)
                     /\ DescriptionWidth(remaining) = exact
          /\ pc = "read" =>
               frame.description_width
                 = Max(frame.description_column_width, MinDescriptionWidth)
                     - ColumnSpacing
          /\ market_data_scroll_pos + 1 \in 0..UsizeMax
          /\ panic_msg = "attempt to add with overflow"
               => market_data_active_panel = "LatestNews")
    /\ [][(market_data_active_panel = "MarketData"
           /\ (Reads("Up") \/ Reads("Down")))
            => /\ pc' = "draw"
               /\ market_data_scroll_pos' \in 0..UsizeMax
               /\ Reads("Up")
                    => market_data_scroll_pos' = Max(market_data_scroll_pos - 1, 0)
               /\ Reads("Down")
                    => market_data_scroll_pos'
                         = Min(Max(Len(quotes) - 1, 0),
                               market_data_scroll_pos + 1)]_vars

\* a terminal of width 0 with no quotes, Up pressed at offset 0: the frame
\* has description width 20 and the loop goes on
ArithmeticTotalWitness ==
    /\ term_width = 0
    /\ Len(quotes) = 0
    /\ event = "Up"
    /\ market_data_active_panel = "MarketData"
    /\ market_data_scroll_pos = 0
    /\ pc = "draw"
    /\ frame.drawn
    /\ frame.description_width = MinDescriptionWidth - ColumnSpacing

\* C18: with at least one quote, the quotes left after skipping the market
\* data offset are at least one in every reachable state, and so are the
\* rows of the frame on screen; at the greatest offset, len - 1, they are
\* the last quote alone.
NonEmptyWindow ==
    Len(quotes) > 0 =>
        LET window == VisibleQuotes(quotes, market_data_scroll_pos)
        IN  /\ Len(window) >= 1
            /\ market_data_scroll_pos <= Len(quotes) - 1
            /\ market_data_scroll_pos = Len(quotes) - 1
                 => window = << quotes[Len(quotes)] >>
            /\ pc = "read" =>
                 /\ Len(frame.rows) = Len(window)
                 /\ frame.rows[Len(frame.rows)].ticker
                      = quotes[Len(quotes)].company

\* Down past the end of four quotes: the frame shows the fourth quote alone
NonEmptyWindowWitness ==
    /\ Len(quotes) = 4
    /\ downRun > Len(quotes)
    /\ market_data_scroll_pos = 3
    /\ pc = "read"
    /\ Len(frame.rows) = 1
    /\ frame.rows[1].ticker = quotes[4].company

\* C19: a run whose UI state differs from another run's in
\* latest_news_scroll_pos alone, through Up and Down keys on the news panel
\* the other did not get, stays in step with it on the same events: after
\* each of its steps it is where the other run is, with the same frame, the
\* same focus and the same market data offset, and both or neither have
\* panicked.
NewsScrollNoEffect ==
    [][twin' # twin
         => /\ twin'.pc = pc'
            /\ twin'.frame = frame'
            /\ twin'.market_data_active_panel = market_data_active_panel'
            /\ twin'.market_data_scroll_pos = market_data_scroll_pos'
            /\ twin'.panic_msg = panic_msg']_vars

====
